---- MODULE Spec2Model ----
(***************************************************************************)
(* A model of the KEITH / KLighD IDE glue code:                            *)
(*   - KeithDiagramManager (Theia): createWidget, open, drawDiagram and    *)
(*     the editor-changed handler, with the promise reactions they         *)
(*     register run from a FIFO microtask queue;                           *)
(*   - KLighDExtension (VS Code): the constructor, getDiagramType and the  *)
(*     'diagram.open' command handler, which suspends once;                *)
(*   - the interactive layout view: renderInteractiveLayout, renderLayer   *)
(*     and renderPositions.                                                *)
(* The three components share no state; each has its own specification    *)
(* (SpecManager, SpecExtension, SpecRender) that leaves the variables of   *)
(* the other two untouched.                                                *)
(***************************************************************************)
EXTENDS Naturals, Integers, Sequences, FiniteSets, TLC

VARIABLES
    \* ---- KeithDiagramManager ----
    keithWidgets,   \* every KeithDiagramWidget constructed so far, in order
    containers,     \* every DI container created so far, in order
    wmWidgets,      \* the widget manager: {[factory, key, widget]}
    calls,          \* the open()/drawDiagram() calls made so far
    microtasks,     \* the promise-reaction jobs queued, FIFO
    lastOp,         \* the handler that ran last, with its input and outcome
    \* ---- KLighDExtension ----
    lsClient,       \* the static KLighDExtension.lsClient
    ext,            \* the extension instance constructed last
    handlers,       \* the 'diagram.open' invocations, in the order issued
    webviews,       \* every webview createWebView returned, in order
    singleton,      \* this.singleton: 0 (undefined) or a webview's index
    webviewMap,     \* this.webviewMap: a set of <<key, webview index>>
    viewCount,      \* the base class's counter behind the client ids
    resumed,        \* the invocations whose continuation has run, in order
    \* ---- interactive layout view ----
    knodes,         \* root.children, already filtered to KNodes
    drag,           \* the offset the selected nodes were dragged by
    root,           \* the root's size and hierarchical bounds
    view            \* what the last renderInteractiveLayout produced

managerVars == <<keithWidgets, containers, wmWidgets, calls, microtasks, lastOp>>
extensionVars == <<lsClient, ext, handlers, webviews, singleton, webviewMap, viewCount, resumed>>
renderVars == <<knodes, drag, root, view>>
vars == <<managerVars, extensionVars, renderVars>>

(***************************************************************************)
(* Bounds of the model.                                                    *)
(***************************************************************************)
MaxCalls == 2        \* open()/drawDiagram() calls in one behaviour
MaxCreates == 3      \* direct createWidget calls in one behaviour
MaxCommands == 2     \* 'diagram.open' invocations in one behaviour
MaxNodes == 3        \* nodes of the hierarchical level
MaxLayers == 2       \* layers of its layout

(***************************************************************************)
(* Plain JavaScript objects are sets of <<key, value>> pairs with one pair *)
(* per key; values are strings, "" being the one falsy string.             *)
(***************************************************************************)
Keys(obj) == {p[1] : p \in obj}

Get(obj, k) == IF k \in Keys(obj) THEN (CHOOSE p \in obj : p[1] = k)[2] ELSE "undefined"

\* {...a, ...b}: b's properties win.
Spread(a, b) == b \cup {p \in a : p[1] \notin Keys(b)}

(***************************************************************************)
(* KLighDExtension                                                         *)
(***************************************************************************)
\* The diagram type of the extension's constants.
diagramType == "keith-diagram"

LanguageClients == {"clientA", "clientB"}

\* Strings that are taken apart (paths, file endings) are sequences of
\* characters.
EndingLists ==
    { <<>>, << <<".", "k">> >>, << <<".", "x">>, <<".", "k">> >> }

Paths ==
    { <<"a", ".", "k">>, <<".", "k", ".", "x">>, <<"k">>, <<".", "k">>, <<"a", ".", "s">> }

\* commandArgs[0]: a Uri with a path, or something that is no Uri (nothing
\* at all, or a plain string that looks like a path).
CommandArgs ==
    [isUri : {TRUE}, path : Paths]
        \cup {[isUri |-> FALSE, path |-> <<>>], [isUri |-> FALSE, path |-> <<"a", ".", "k">>]}

NoExtension ==
    [constructed |-> FALSE, options |-> [lsClient |-> "unset", supportedFileEnding |-> <<>>],
     staticBefore |-> "unset", languageClient |-> "unset", supportedFileEndings |-> <<>>]

\* activateLanguageClient(_): the static property, as it is when called.
activateLanguageClient(static) == static

\* The constructor, had it stored the client only after super().
ConstructorStoresAfterSuper(static, options) ==
    [ static |-> options.lsClient,
      instance |-> [constructed |-> TRUE, options |-> options, staticBefore |-> static,
                    languageClient |-> activateLanguageClient(static),
                    supportedFileEndings |-> options.supportedFileEnding] ]

\* new KLighDExtension(context, options): the static property is set, then
\* the base constructor runs and keeps what activateLanguageClient returns,
\* then the supported file endings are stored.
Constructor(static, options) ==
    LET stored == options.lsClient
    IN [ static |-> stored,
         instance |-> [constructed |-> TRUE, options |-> options, staticBefore |-> static,
                       languageClient |-> activateLanguageClient(stored),
                       supportedFileEndings |-> options.supportedFileEnding] ]

\* String.prototype.endsWith: the ending is compared with the substring of
\* its length at the end of the path; a longer ending never matches.
EndsWith(path, ending) ==
    LET start == Len(path) - Len(ending)
    IN IF start < 0 THEN FALSE
       ELSE SubSeq(path, start + 1, Len(path)) = ending

\* supportedFileEndings.some(ending => path.endsWith(ending))
pathHasSupportedFileEnding(endings, path) ==
    \E i \in 1..Len(endings) : EndsWith(path, endings[i])

\* getDiagramType, had it not tested that the argument is a Uri.
getDiagramTypeAnyArgument(endings, commandArg) ==
    IF pathHasSupportedFileEnding(endings, commandArg.path) THEN diagramType ELSE "undefined"

\* getDiagramType(commandArgs)
getDiagramType(endings, commandArg) ==
    IF commandArg.isUri /\ pathHasSupportedFileEnding(endings, commandArg.path)
    THEN diagramType
    ELSE "undefined"

NoIdentifier == [defined |-> FALSE, diagramType |-> "", uri |-> <<>>, clientId |-> <<"", 0>>]

\* The base class's createDiagramIdentifier: no identifier without a
\* diagram type; otherwise the type, the URI and a fresh client id.
createDiagramIdentifier(endings, commandArg, count) ==
    LET type == getDiagramType(endings, commandArg)
    IN IF type = "undefined" THEN NoIdentifier
       ELSE [defined |-> TRUE, diagramType |-> type, uri |-> commandArg.path,
             clientId |-> <<type, count>>]

\* The base class's getKey: the diagram type and the URI.
getKey(identifier) == <<identifier.diagramType, identifier.uri>>

\* createWebView, had it not asked for a singleton.
createWebViewNotSingleton(identifier) ==
    [identifier |-> identifier, createdFor |-> identifier, singleton |-> FALSE,
     reloads |-> 0, reveals |-> 0]

\* createWebView(identifier): a new SprottyLspWebview, a singleton.
createWebView(identifier) ==
    [identifier |-> identifier, createdFor |-> identifier, singleton |-> TRUE,
     reloads |-> 0, reveals |-> 0]

\* this.webviewMap.get(key): 0 stands for undefined.
MapGet(key) ==
    IF \E e \in webviewMap : e[1] = key
    THEN (CHOOSE e \in webviewMap : e[1] = key)[2]
    ELSE 0

\* this.webviewMap.set(key, webView)
MapSet(key, wv) == {e \in webviewMap : e[1] # key} \cup {<<key, wv>>}

\* this.singleton || this.webviewMap.get(key)
FindWebView(key) == IF singleton # 0 THEN singleton ELSE MapGet(key)

\* A step of the extension leaves the other two components alone.
ExtensionOnly == UNCHANGED <<managerVars, renderVars>>

\* The host extension constructs the extension.
Construct(client, endings) ==
    /\ ExtensionOnly
    /\ handlers = <<>>
    /\ LET made == Constructor(lsClient, [lsClient |-> client, supportedFileEnding |-> endings])
       IN /\ lsClient' = made.static
          /\ ext' = made.instance
    /\ UNCHANGED <<handlers, webviews, singleton, webviewMap, viewCount, resumed>>

\* The 'diagram.open' command is invoked: the handler calls
\* createDiagramIdentifier, which suspends before it looks at the arguments.
InvokeDiagramOpen(commandArg) ==
    /\ ExtensionOnly
    /\ ext.constructed
    /\ Len(handlers) < MaxCommands
    /\ handlers' = Append(handlers, [arg |-> commandArg, pc |-> "identify",
                                     type |-> "undefined", identifier |-> NoIdentifier,
                                     outcome |-> "none"])
    /\ UNCHANGED <<lsClient, ext, webviews, singleton, webviewMap, viewCount, resumed>>

\* createDiagramIdentifier completes; the handler is still suspended in its
\* await.
Identify(h) ==
    /\ ExtensionOnly
    /\ handlers[h].pc = "identify"
    /\ LET identifier == createDiagramIdentifier(ext.supportedFileEndings,
                                                 handlers[h].arg, viewCount)
       IN /\ handlers' = [handlers EXCEPT
                 ![h].pc = "resume",
                 ![h].type = getDiagramType(ext.supportedFileEndings, handlers[h].arg),
                 ![h].identifier = identifier]
          /\ viewCount' = IF identifier.defined THEN viewCount + 1 ELSE viewCount
    /\ UNCHANGED <<lsClient, ext, webviews, singleton, webviewMap, resumed>>

\* The handler resumes with the identifier and runs to its end.
Resume(h) ==
    /\ ExtensionOnly
    /\ handlers[h].pc = "resume"
    /\ resumed' = Append(resumed, h)
    /\ LET identifier == handlers[h].identifier
           key == getKey(identifier)
           webView == FindWebView(key)
           created == createWebView(identifier)
       IN IF ~identifier.defined
          THEN /\ handlers' = [handlers EXCEPT ![h].pc = "done"]
               /\ UNCHANGED <<webviews, singleton, webviewMap>>
          ELSE IF webView # 0
          THEN /\ webviews' = [webviews EXCEPT ![webView].identifier = identifier,
                                               ![webView].reloads = @ + 1,
                                               ![webView].reveals = @ + 1]
               /\ handlers' = [handlers EXCEPT ![h].pc = "done", ![h].outcome = "reloaded"]
               /\ UNCHANGED <<singleton, webviewMap>>
          ELSE /\ webviews' = Append(webviews, created)
               /\ webviewMap' = MapSet(key, Len(webviews) + 1)
               /\ singleton' = IF created.singleton THEN Len(webviews) + 1 ELSE singleton
               /\ handlers' = [handlers EXCEPT ![h].pc = "done", ![h].outcome = "created"]
    /\ UNCHANGED <<lsClient, ext, viewCount>>

(***************************************************************************)
(* KeithDiagramManager                                                     *)
(***************************************************************************)
DIAGRAM_TYPE == "keith-diagram"

\* The id of the manager as a widget factory and open handler.
ManagerId == DIAGRAM_TYPE \o "-diagram-manager"

URIs == {"file:/a.sctx", "file:/b.sctx"}

\* Values createWidget may be handed: [tag, props], props in insertion order.
Undefined == [tag |-> "undefined", props |-> <<>>]

Null == [tag |-> "null", props |-> <<>>]

Str(s) == [tag |-> "string", props |-> <<<<"value", s>>>>]

Obj(props) == [tag |-> "object", props |-> props]

WidgetOptionsFor(uri, label) ==
    Obj(<<<<"diagramType", DIAGRAM_TYPE>>, <<"uri", uri>>,
          <<"iconClass", "fa fa-square-o">>, <<"label", label>>>>)

OptionValues ==
    { Undefined, Null, Str("file:/a.sctx"), Obj(<<>>),
      Obj(<<<<"diagramType", DIAGRAM_TYPE>>, <<"uri", "file:/a.sctx">>,
            <<"iconClass", "fa fa-square-o">>>>),
      WidgetOptionsFor("file:/a.sctx", ""),
      WidgetOptionsFor("file:/a.sctx", "Diagram"),
      WidgetOptionsFor("file:/b.sctx", "Diagram"),
      WidgetOptionsFor("file:/c.sctx", "Model") }

Prop(o, k) ==
    IF \E i \in 1..Len(o.props) : o.props[i][1] = k
    THEN o.props[CHOOSE i \in 1..Len(o.props) : o.props[i][1] = k][2]
    ELSE ""

\* The type guard of the diagram framework: the four properties of a
\* DiagramWidgetOptions are there and truthy.
DiagramWidgetOptionsIs(o) ==
    /\ o.tag = "object"
    /\ \A k \in {"diagramType", "uri", "label", "iconClass"} : Prop(o, k) # ""

RECURSIVE JoinProps(_, _)
JoinProps(props, i) ==
    IF i > Len(props) THEN ""
    ELSE (IF i > 1 THEN "," ELSE "") \o "\"" \o props[i][1] \o "\":\""
         \o props[i][2] \o "\"" \o JoinProps(props, i + 1)

\* 'text' + JSON.stringify(options): stringify yields no string for
\* undefined, which the concatenation renders as "undefined".
JSONStringify(o) ==
    CASE o.tag = "undefined" -> "undefined"
      [] o.tag = "null" -> "null"
      [] o.tag = "string" -> "\"" \o o.props[1][2] \o "\""
      [] OTHER -> "{" \o JoinProps(o.props, 1) \o "}"

createClientId == DIAGRAM_TYPE

NoWidget == [kind |-> "none", id |-> 0, uri |-> "", clientId |-> "", diContainer |-> 0]

\* createWidget, had it made the DI container before testing the options.
CreateWidgetEager(options) ==
    [ threw |-> ~DiagramWidgetOptionsIs(options),
      error |-> IF DiagramWidgetOptionsIs(options) THEN ""
                ELSE "DiagramWidgetFactory needs DiagramWidgetOptions but got "
                     \o JSONStringify(options),
      newContainers |-> <<[config |-> Prop(options, "diagramType"),
                           name |-> createClientId \o "_sprotty"]>>,
      widget |-> IF DiagramWidgetOptionsIs(options)
                 THEN [kind |-> "KeithDiagramWidget", id |-> Len(keithWidgets) + 1,
                       uri |-> Prop(options, "uri"), clientId |-> createClientId,
                       diContainer |-> Len(containers) + 1]
                 ELSE NoWidget ]

\* createWidget(options): what it throws, or the container and the widget it
\* makes.
CreateWidget(options) ==
    IF DiagramWidgetOptionsIs(options)
    THEN [ threw |-> FALSE, error |-> "",
           newContainers |-> <<[config |-> Prop(options, "diagramType"),
                                name |-> createClientId \o "_sprotty"]>>,
           widget |-> [kind |-> "KeithDiagramWidget", id |-> Len(keithWidgets) + 1,
                       uri |-> Prop(options, "uri"), clientId |-> createClientId,
                       diContainer |-> Len(containers) + 1] ]
    ELSE [ threw |-> TRUE,
           error |-> "DiagramWidgetFactory needs DiagramWidgetOptions but got "
                     \o JSONStringify(options),
           newContainers |-> <<>>,
           widget |-> NoWidget ]

\* createWidgetOptions(uri): the base options with the label 'Diagram'.
createWidgetOptions(uri) == WidgetOptionsFor(uri, "Diagram")

\* What the editor manager may hand to the handler: undefined, or an editor
\* whose getResourceUri() yields a URI or nothing.
NoEditor == [defined |-> FALSE, resourceUri |-> "undefined"]

EditorWidgets ==
    {NoEditor} \cup [defined : {TRUE}, resourceUri : URIs \cup {"undefined"}]

\* Options a caller may pass to open(uri, input); {} is "no input".
OpenerInputs == { {}, {<<"mode", "activate">>, <<"area", "right">>} }

\* A step of the manager leaves the other two components alone.
ManagerOnly == UNCHANGED <<extensionVars, renderVars>>

NoResult == [threw |-> FALSE, error |-> "", newContainers |-> <<>>, widget |-> NoWidget]

IdleOp == [op |-> "none", editor |-> NoEditor, options |-> Undefined, result |-> NoResult]

\* {...input, mode: 'reveal'}
OpenerOptions(input) == Spread(input, {<<"mode", "reveal">>})

\* open(uri, input): the base open is started and the reaction that fires
\* onDiagramOpened is registered on its promise.
OpenCall(uri, input) ==
    [ kind |-> "open", uri |-> uri, options |-> OpenerOptions(input),
      st |-> "pending", widget |-> NoWidget, reactions |-> <<"fire">>,
      events |-> <<>> ]

\* drawDiagram, had its reaction been registered ahead of open's.
DrawDiagramCallReinitFirst(uri) ==
    [OpenCall(uri, {}) EXCEPT !.kind = "draw", !.reactions = <<"reinit">> \o @]

\* drawDiagram(uri): open(uri), then the reaction that reinitializes the
\* widget is registered on the promise open returned.
DrawDiagramCall(uri) ==
    [OpenCall(uri, {}) EXCEPT !.kind = "draw", !.reactions = @ \o <<"reinit">>]

\* What the manager did for a call: started the base open (with a mode),
\* fired onDiagramOpened, called reInitialize on a widget.
Event(ev, uri, mode, wid) == [ev |-> ev, uri |-> uri, mode |-> mode, widget |-> wid]

\* The call is appended; the start of its base open is its first event.
StartCall(call) ==
    calls' = Append(calls, [call EXCEPT !.events =
                 <<Event("baseOpen", call.uri, Get(call.options, "mode"), 0)>>])

\* widgetManager.getWidgets(this.id)
GetWidgets(factory) == {w \in wmWidgets : w.factory = factory}

\* The guard, had it not asked for an existing diagram widget.
RedrawsAlways(editorWidget) == editorWidget.defined /\ editorWidget.resourceUri \in URIs

\* The guard of onCurrentEditorChanged: a diagram widget of this manager
\* exists, the editor is defined and its resource URI is a URI.
Redraws(editorWidget) ==
    /\ GetWidgets(ManagerId) # {}
    /\ editorWidget.defined
    /\ editorWidget.resourceUri \in URIs

\* open(uri, input) called from outside (the open handler of the shell).
Open(uri, input) ==
    /\ ManagerOnly
    /\ microtasks = <<>>
    /\ Len(calls) < MaxCalls
    /\ StartCall(OpenCall(uri, input))
    /\ lastOp' = IdleOp
    /\ UNCHANGED <<keithWidgets, containers, wmWidgets, microtasks>>

OnCurrentEditorChanged(editorWidget) ==
    /\ ManagerOnly
    /\ microtasks = <<>>
    /\ lastOp' = [IdleOp EXCEPT !.op = "editorChanged", !.editor = editorWidget]
    /\ IF Redraws(editorWidget)
       THEN /\ Len(calls) < MaxCalls
            /\ StartCall(DrawDiagramCall(editorWidget.resourceUri))
       ELSE UNCHANGED calls
    /\ UNCHANGED <<keithWidgets, containers, wmWidgets, microtasks>>

\* drawDiagram(uri) called from outside (it is public).
DrawDiagram(uri) ==
    /\ ManagerOnly
    /\ microtasks = <<>>
    /\ Len(calls) < MaxCalls
    /\ StartCall(DrawDiagramCall(uri))
    /\ lastOp' = IdleOp
    /\ UNCHANGED <<keithWidgets, containers, wmWidgets, microtasks>>

Jobs(c) == [i \in 1..Len(calls[c].reactions) |-> [job |-> calls[c].reactions[i], call |-> c]]

\* The base open resolves: the widget manager hands back the widget it has
\* for this factory and URI, or has the factory (createWidget) make one.
\* The reactions registered on the promise are queued in registration order.
BaseOpenResolves(c) ==
    /\ ManagerOnly
    /\ microtasks = <<>>
    /\ calls[c].st = "pending"
    /\ LET have == {w \in GetWidgets(ManagerId) : w.key = calls[c].uri}
           made == CreateWidget(createWidgetOptions(calls[c].uri))
       IN IF have # {}
          THEN /\ calls' = [calls EXCEPT ![c].st = "resolved",
                                         ![c].widget = (CHOOSE w \in have : TRUE).widget]
               /\ UNCHANGED <<keithWidgets, containers, wmWidgets>>
          ELSE /\ calls' = [calls EXCEPT ![c].st = "resolved", ![c].widget = made.widget]
               /\ keithWidgets' = Append(keithWidgets, made.widget)
               /\ containers' = containers \o made.newContainers
               /\ wmWidgets' = wmWidgets \cup
                      {[factory |-> ManagerId, key |-> calls[c].uri, widget |-> made.widget]}
    /\ microtasks' = Jobs(c)
    /\ lastOp' = IdleOp

\* The base open rejects: the reactions never run.
BaseOpenRejects(c) ==
    /\ ManagerOnly
    /\ microtasks = <<>>
    /\ calls[c].st = "pending"
    /\ calls' = [calls EXCEPT ![c].st = "rejected"]
    /\ lastOp' = IdleOp
    /\ UNCHANGED <<keithWidgets, containers, wmWidgets, microtasks>>

\* What one reaction does: fire onDiagramOpened(uri), or reInitialize(uri)
\* on the widget when it is a KeithDiagramWidget.
ReactionEvents(j) ==
    IF j.job = "fire"
    THEN <<Event("opened", calls[j.call].uri, "", 0)>>
    ELSE IF calls[j.call].widget.kind = "KeithDiagramWidget"
         THEN <<Event("reinit", calls[j.call].uri, "", calls[j.call].widget.id)>>
         ELSE <<>>

RunMicrotask ==
    /\ ManagerOnly
    /\ microtasks # <<>>
    /\ calls' = [calls EXCEPT ![Head(microtasks).call].events =
                     @ \o ReactionEvents(Head(microtasks))]
    /\ microtasks' = Tail(microtasks)
    /\ lastOp' = IdleOp
    /\ UNCHANGED <<keithWidgets, containers, wmWidgets>>

\* createWidget(options) called as the widget factory, with anything.
CreateWidgetCall(options) ==
    /\ ManagerOnly
    /\ microtasks = <<>>
    /\ LET r == CreateWidget(options)
       IN /\ r.widget.kind # "none" => Len(keithWidgets) < MaxCreates
          /\ keithWidgets' = IF r.widget.kind # "none"
                             THEN Append(keithWidgets, r.widget) ELSE keithWidgets
          /\ containers' = containers \o r.newContainers
          /\ lastOp' = [IdleOp EXCEPT !.op = "createWidget", !.options = options,
                                      !.result = r]
    /\ UNCHANGED <<wmWidgets, calls, microtasks>>

\* The widget manager comes to hold a widget this manager did not make: one
\* of another factory, or a plain DiagramWidget under this manager's id.
ForeignWidgets == {<<"other-factory", "file:/a.sctx">>, <<ManagerId, "file:/b.sctx">>}

ForeignWidget(factory, uri) ==
    /\ ManagerOnly
    /\ microtasks = <<>>
    /\ \A w \in wmWidgets : ~(w.factory = factory /\ w.key = uri)
    /\ wmWidgets' = wmWidgets \cup
           {[factory |-> factory, key |-> uri,
             widget |-> [NoWidget EXCEPT !.kind = "DiagramWidget", !.uri = uri]]}
    /\ lastOp' = IdleOp
    /\ UNCHANGED <<keithWidgets, containers, calls, microtasks>>

(***************************************************************************)
(* The interactive layout view                                             *)
(***************************************************************************)
\* Offsets the selected nodes may be dragged by.
DragXs == {-60, 0, 60, 130}

DragYs == {-60, 0, 60}

NoDrag == [x |-> 0, y |-> 0]

\* What isLayerForbidden and shouldOnlyLCBeSet may answer for the selected
\* node.
HelperAnswers == {<<FALSE, FALSE>>, <<TRUE, TRUE>>}

InitialRoot == [size |-> [width |-> 400, height |-> 160], hierHeight |-> 0, hierWidth |-> 0]

NoView == [rendered |-> FALSE, selected |-> FALSE, currentLayer |-> 0, onlyLC |-> FALSE,
           shapes |-> <<>>]

\* A layout as the layout algorithm leaves it: the layers in use are 0..k,
\* and the nodes of one layer have the positions 0..m in some order.
IsLayout(ns) ==
    LET used == {ns[i].layerId : i \in DOMAIN ns}
    IN /\ used = 0..(Cardinality(used) - 1)
       /\ \A l \in used :
            LET inLayer == {i \in DOMAIN ns : ns[i].layerId = l}
            IN {ns[i].posId : i \in inLayer} = 0..(Cardinality(inLayer) - 1)

Layouts ==
    UNION { {ns \in [1..n -> [layerId : 0..(MaxLayers - 1), posId : 0..(MaxNodes - 1),
                              selected : {FALSE}]] : IsLayout(ns)} : n \in 1..MaxNodes }

\* The KNodes of the level as objects: where the layout put them, moved by
\* the drag when selected.
KNodes ==
    [i \in 1..Len(knodes) |->
        [ id |-> i, layerId |-> knodes[i].layerId, posId |-> knodes[i].posId,
          selected |-> knodes[i].selected,
          position |-> [x |-> 10 * knodes[i].layerId * (knodes[i].layerId + 3) + 10
                                + (IF knodes[i].selected THEN drag.x ELSE 0),
                        y |-> 40 * knodes[i].posId + 10
                                + (IF knodes[i].selected THEN drag.y ELSE 0)],
          size |-> [width |-> 20, height |-> 20] ]]

\* getSelectedNode(nodes): the index of the first selected node, 0 for
\* undefined.
getSelectedNode(nodes) ==
    IF \E i \in 1..Len(nodes) : nodes[i].selected
    THEN CHOOSE i \in 1..Len(nodes) :
            nodes[i].selected /\ \A j \in 1..(i - 1) : ~nodes[j].selected
    ELSE 0

InLayer(layer, nodes) == {i \in 1..Len(nodes) : nodes[i].layerId = layer}

RECURSIVE Pick(_, _, _)
Pick(nodes, wanted, i) ==
    IF i > Len(nodes) THEN <<>>
    ELSE (IF i \in wanted THEN <<nodes[i]>> ELSE <<>>) \o Pick(nodes, wanted, i + 1)

\* getNodesOfLayer(layer, nodes): the nodes of that layer, in array order.
getNodesOfLayer(layer, nodes) == Pick(nodes, InLayer(layer, nodes), 1)

Max(S) == CHOOSE m \in S : \A x \in S : x <= m

\* getLayers(nodes): one layer per layer id, left to right and adjoining,
\* all with the top and bottom of the level.
getLayers(nodes) ==
    LET count == Max({nodes[i].layerId : i \in 1..Len(nodes)}) + 1
        rows == Max({Cardinality(InLayer(l, nodes)) : l \in 0..(count - 1)})
    IN [l \in 1..count |->
          [ leftX |-> 10 * (l - 1) * (l + 2), rightX |-> 10 * l * (l + 3),
            mid |-> 10 * (l - 1) * (l + 2) + (10 * l * (l + 3) - 10 * (l - 1) * (l + 2)) \div 2,
            topY |-> 0, botY |-> 40 * rows ]]

\* getLayerOfNode(node, nodes, layers): the first layer the node's centre
\* is left of the right border of; right of them all it is the new last
\* layer, unless the node is the only one of the last layer.
getLayerOfNode(node, nodes, layers) ==
    LET curX == node.position.x + node.size.width \div 2
        lastLNodes == getNodesOfLayer(Len(layers) - 1, nodes)
    IN IF \E l \in 1..Len(layers) : curX < layers[l].rightX
       THEN (CHOOSE l \in 1..Len(layers) :
                /\ curX < layers[l].rightX
                /\ \A k \in 1..(l - 1) : ~(curX < layers[k].rightX)) - 1
       ELSE IF Len(lastLNodes) = 1 /\ lastLNodes[1].selected
            THEN Len(layers) - 1
            ELSE Len(layers)

\* What a comparator (a, b) => a.f - b.f compares.
SortKey(n, by) == IF by = "position.y" THEN n.position.y ELSE n.posId

RECURSIVE InsertSorted(_, _, _)
InsertSorted(sorted, n, by) ==
    IF sorted = <<>> THEN <<n>>
    ELSE IF SortKey(n, by) < SortKey(Head(sorted), by) THEN <<n>> \o sorted
    ELSE <<Head(sorted)>> \o InsertSorted(Tail(sorted), n, by)

RECURSIVE SortBy(_, _)
\* Array.prototype.sort with such a comparator.
SortBy(ns, by) ==
    IF ns = <<>> THEN <<>>
    ELSE InsertSorted(SortBy(SubSeq(ns, 1, Len(ns) - 1), by), ns[Len(ns)], by)

\* getPosInLayer(layerNs, target): sorts the layer's nodes by y, in place,
\* and yields the target's index among them, or the index it would have.
getPosInLayer(layerNs, target) ==
    LET sorted == SortBy(layerNs, "position.y")
        at == {i \in 1..Len(sorted) : sorted[i].id = target.id}
        below == {i \in 1..Len(sorted) : target.position.y < sorted[i].position.y}
    IN [ sorted |-> sorted,
         pos |-> IF at # {} THEN (CHOOSE i \in at : TRUE) - 1
                 ELSE IF below # {} THEN (CHOOSE i \in below : \A j \in below : i <= j) - 1
                 ELSE Len(sorted) ]

Shape(shape, x, y, width, height, forbidden, flag, layer, gap, cmp) ==
    [ shape |-> shape, x |-> x, y |-> y, width |-> width, height |-> height,
      forbidden |-> forbidden, flag |-> flag, layer |-> layer, gap |-> gap, cmp |-> cmp ]

\* createRect(x, y, width, height, forbidden, onlyLC), for layer `layer`.
createRect(x, y, width, height, forbidden, onlyLC, layer) ==
    Shape("rect", x, y, width, height, forbidden, onlyLC, layer, -1, -1)

\* createVerticalLine(x, topY, botY), for layer `layer`.
createVerticalLine(x, topY, botY, layer) ==
    Shape("line", x, topY, 0, botY - topY, FALSE, FALSE, layer, -1, -1)

\* createCircle(fill, x, y, forbidden); the circle stands in gap `gap` of
\* the layer (gap g is above the g-th node, counted from 0) and fill was
\* curPos === cmp.
createCircle(fill, x, y, forbidden, gap, cmp) ==
    Shape("circle", x, y, 0, 0, forbidden, fill, -1, gap, cmp)

\* The test, had it looked at the upper node only.
GapIsFreeAbove(node, next) == ~node.selected

\* The test of the loop in renderPositions: no circle at the old position
\* of the selected node.
GapIsFree(node, next) == ~node.selected /\ ~next.selected

RECURSIVE BetweenNodes(_, _, _, _, _, _)
\* The loop "calculate positions between nodes", from iteration i on, with
\* the shift it carries; yields the circles and the shift after the loop.
BetweenNodes(layerNodes, i, shift, curPos, x, forbidden) ==
    IF ~(i < Len(layerNodes) - 1) THEN [circles |-> <<>>, shift |-> shift]
    ELSE LET node == layerNodes[i + 1]
             next == layerNodes[i + 2]
         IN IF GapIsFree(node, next)
            THEN LET topY == node.position.y + node.size.height
                     botY == next.position.y
                     midY == topY + (botY - topY) \div 2
                     rest == BetweenNodes(layerNodes, i + 1, shift, curPos, x, forbidden)
                 IN [ circles |-> <<createCircle(curPos = i + shift, x, midY, forbidden,
                                                 i + 1, i + shift)>> \o rest.circles,
                      shift |-> rest.shift ]
            ELSE BetweenNodes(layerNodes, i + 1, 0, curPos, x, forbidden)

\* The last selected node of the level, or the first node.
Target(nodes) ==
    IF \E i \in 1..Len(nodes) : nodes[i].selected
    THEN nodes[Max({i \in 1..Len(nodes) : nodes[i].selected})]
    ELSE nodes[1]

\* renderPositions(current, nodes, layers, forbidden): the circles.
renderPositions(current, nodes, layers, forbidden) ==
    LET placed == getPosInLayer(getNodesOfLayer(current, nodes), Target(nodes))
        curPos == placed.pos
        layerNodes == SortBy(placed.sorted, "posId")
        n == Len(layerNodes)
    IN IF n > 0
       THEN LET layer == layers[current + 1]
                x == layer.mid
                loop == BetweenNodes(layerNodes, 0, 1, curPos, x, forbidden)
                first == layerNodes[1]
                last == layerNodes[n]
            IN loop.circles
               \o (IF ~first.selected
                   THEN <<createCircle(curPos = 0, x,
                              layer.topY + (first.position.y - layer.topY) \div 2,
                              forbidden, 0, 0)>>
                   ELSE <<>>)
               \o (IF ~last.selected
                   THEN <<createCircle(curPos = n - 1 + loop.shift, x,
                              layer.botY - (layer.botY - (last.position.y + last.size.height)) \div 2,
                              forbidden, n, n - 1 + loop.shift)>>
                   ELSE <<>>)
       ELSE LET lastL == layers[Len(layers)]
            IN <<createCircle(TRUE, lastL.mid + (lastL.rightX - lastL.leftX),
                              lastL.topY + (lastL.botY - lastL.topY) \div 2,
                              forbidden, 0, 0)>>

\* Whether the new empty last layer is shown: not when the moved node is
\* the only node of the last layer.
ShowsNewLastLayer(nodes, layers) ==
    LET lastLNodes == getNodesOfLayer(Len(layers) - 1, nodes)
    IN Len(lastLNodes) # 1 \/ ~lastLNodes[1].selected

\* The new last layer, had it always been drawn as a line.
NewLastLayerShapeAlwaysLine(currentLayer, layers, forbidden, onlyLC) ==
    LET lastL == layers[Len(layers)]
        topY == layers[1].topY
        botY == layers[1].botY
    IN createVerticalLine(lastL.mid + (lastL.rightX - lastL.leftX), topY, botY, Len(layers))

\* What stands for the new last layer: the rectangle when the node is in
\* it, a line otherwise.
NewLastLayerShape(currentLayer, layers, forbidden, onlyLC) ==
    LET lastL == layers[Len(layers)]
        topY == layers[1].topY
        botY == layers[1].botY
    IN IF currentLayer = Len(layers)
       THEN createRect(lastL.rightX, topY, lastL.rightX - lastL.leftX, botY - topY,
                       forbidden, onlyLC, Len(layers))
       ELSE createVerticalLine(lastL.mid + (lastL.rightX - lastL.leftX), topY, botY,
                               Len(layers))

\* The rightmost x, had the new last layer not been counted in.
RightmostXOfLayers(nodes, layers) == layers[Len(layers)].rightX

\* The rightmost x coordinate: the last layer's right border, moved on by
\* the last layer's width when the new last layer is shown.
RightmostX(nodes, layers) ==
    LET lastL == layers[Len(layers)]
    IN IF ShowsNewLastLayer(nodes, layers)
       THEN lastL.rightX + lastL.rightX - lastL.leftX
       ELSE lastL.rightX

\* renderLayer(nodes, root), with what isLayerForbidden and shouldOnlyLCBeSet
\* answer: the shapes, and the root with its hierarchical bounds.
renderLayer(nodes, rootNode, isForbidden, onlyLCSet) ==
    IF getSelectedNode(nodes) # 0
    THEN LET selNode == nodes[getSelectedNode(nodes)]
             layers == getLayers(nodes)
             currentLayer == getLayerOfNode(selNode, nodes, layers)
             topY == layers[1].topY
             botY == layers[1].botY
             onlyLC == onlyLCSet /\ selNode.layerId # currentLayer
             created == [i \in 1..Len(layers) |->
                            IF i - 1 = currentLayer
                            THEN createRect(layers[i].leftX, topY,
                                            layers[i].rightX - layers[i].leftX,
                                            botY - topY, isForbidden, onlyLC, i - 1)
                            ELSE createVerticalLine(layers[i].mid, topY, botY, i - 1)]
             result == created \o
                           (IF ShowsNewLastLayer(nodes, layers)
                            THEN <<NewLastLayerShape(currentLayer, layers, isForbidden, onlyLC)>>
                            ELSE <<>>)
         IN [ root |-> [rootNode EXCEPT !.hierHeight = rootNode.size.height,
                                        !.hierWidth = RightmostX(nodes, layers)
                                                          - layers[1].leftX + 10],
              view |-> [ rendered |-> TRUE, selected |-> TRUE,
                         currentLayer |-> currentLayer, onlyLC |-> onlyLC,
                         shapes |-> IF ~onlyLC
                                    THEN result \o renderPositions(currentLayer, nodes,
                                                                   layers, isForbidden)
                                    ELSE result ] ]
    ELSE [ root |-> rootNode,
           view |-> [NoView EXCEPT !.rendered = TRUE] ]

\* A step of the view leaves the other two components alone.
RenderOnly == UNCHANGED <<managerVars, extensionVars>>

\* renderInteractiveLayout(root)
RenderInteractiveLayout(isForbidden, onlyLCSet) ==
    /\ RenderOnly
    /\ LET done == renderLayer(KNodes, root, isForbidden, onlyLCSet)
       IN /\ root' = done.root
          /\ view' = done.view
    /\ UNCHANGED <<knodes, drag>>

\* The user selects or deselects a node; the view is to be rendered anew.
ToggleSelected(i) ==
    /\ RenderOnly
    /\ knodes' = [knodes EXCEPT ![i].selected = ~@]
    /\ view' = NoView
    /\ UNCHANGED <<drag, root>>

\* The user drags the selected nodes.
DragSelected(dx, dy) ==
    /\ RenderOnly
    /\ \E i \in 1..Len(knodes) : knodes[i].selected
    /\ drag' = [x |-> dx, y |-> dy]
    /\ view' = NoView
    /\ UNCHANGED <<knodes, root>>

\* The manager after construction; the extension and the view are idle.
InitManager ==
    /\ keithWidgets = <<>> /\ containers = <<>> /\ wmWidgets = {}
    /\ calls = <<>> /\ microtasks = <<>> /\ lastOp = IdleOp
    /\ lsClient = "unset" /\ ext = NoExtension /\ handlers = <<>> /\ webviews = <<>>
    /\ singleton = 0 /\ webviewMap = {} /\ viewCount = 0 /\ resumed = <<>>
    /\ knodes = <<>> /\ drag = NoDrag /\ root = InitialRoot /\ view = NoView

ManagerNext ==
    \/ \E u \in URIs, input \in OpenerInputs : Open(u, input)
    \/ \E e \in EditorWidgets : OnCurrentEditorChanged(e)
    \/ \E u \in URIs : DrawDiagram(u)
    \/ \E c \in 1..Len(calls) : BaseOpenResolves(c)
    \/ \E c \in 1..Len(calls) : BaseOpenRejects(c)
    \/ RunMicrotask
    \/ \E f \in ForeignWidgets : ForeignWidget(f[1], f[2])

\* The manager as an open handler: open, drawDiagram, the editor-changed
\* handler, and the base open's promises settling.
SpecManager == InitManager /\ [][ManagerNext]_vars

InitFactory ==
    /\ keithWidgets = <<>> /\ containers = <<>> /\ wmWidgets = {}
    /\ calls = <<>> /\ microtasks = <<>> /\ lastOp = IdleOp
    /\ lsClient = "unset" /\ ext = NoExtension /\ handlers = <<>> /\ webviews = <<>>
    /\ singleton = 0 /\ webviewMap = {} /\ viewCount = 0 /\ resumed = <<>>
    /\ knodes = <<>> /\ drag = NoDrag /\ root = InitialRoot /\ view = NoView

FactoryNext == \E o \in OptionValues : CreateWidgetCall(o)

\* The manager as a widget factory: createWidget applied to every kind of
\* value, time and again.
SpecFactory == InitFactory /\ [][FactoryNext]_vars

\* Nothing constructed yet: the static property is unset. The manager and
\* the view are idle.
InitExtension ==
    /\ keithWidgets = <<>> /\ containers = <<>> /\ wmWidgets = {}
    /\ calls = <<>> /\ microtasks = <<>> /\ lastOp = IdleOp
    /\ lsClient = "unset" /\ ext = NoExtension /\ handlers = <<>> /\ webviews = <<>>
    /\ singleton = 0 /\ webviewMap = {} /\ viewCount = 0 /\ resumed = <<>>
    /\ knodes = <<>> /\ drag = NoDrag /\ root = InitialRoot /\ view = NoView

ExtensionNext ==
    \/ \E c \in LanguageClients, e \in EndingLists : Construct(c, e)
    \/ \E a \in CommandArgs : InvokeDiagramOpen(a)
    \/ \E h \in 1..Len(handlers) : Identify(h)
    \/ \E h \in 1..Len(handlers) : Resume(h)

\* The extension: constructed by its host, then 'diagram.open' invoked any
\* number of times, the handlers interleaving at their await.
SpecExtension == InitExtension /\ [][ExtensionNext]_vars

\* A laid-out level, nothing selected, nothing rendered. The manager and
\* the extension are idle.
InitRender ==
    /\ keithWidgets = <<>> /\ containers = <<>> /\ wmWidgets = {}
    /\ calls = <<>> /\ microtasks = <<>> /\ lastOp = IdleOp
    /\ lsClient = "unset" /\ ext = NoExtension /\ handlers = <<>> /\ webviews = <<>>
    /\ singleton = 0 /\ webviewMap = {} /\ viewCount = 0 /\ resumed = <<>>
    /\ knodes \in Layouts /\ drag = NoDrag /\ root = InitialRoot /\ view = NoView

RenderNext ==
    \/ \E a \in HelperAnswers : RenderInteractiveLayout(a[1], a[2])
    \/ \E i \in 1..Len(knodes) : ToggleSelected(i)
    \/ \E dx \in DragXs, dy \in DragYs : DragSelected(dx, dy)

\* The view: nodes are selected and dragged, and the level is rendered.
SpecRender == InitRender /\ [][RenderNext]_vars

(***************************************************************************)
(* Claims about KeithDiagramManager                                        *)
(***************************************************************************)
\* The shape of a DiagramWidgetOptions: an object with the four properties.
HasWidgetOptionsShape(o) ==
    /\ o.tag = "object"
    /\ {"diagramType", "uri", "label", "iconClass"}
           \subseteq {o.props[i][1] : i \in {j \in 1..Len(o.props) : o.props[j][2] # ""}}

\* The JSON text of the values that are not of that shape.
ExpectedJSON(o) ==
    CASE o = Undefined -> "undefined"
      [] o = Null -> "null"
      [] o = Str("file:/a.sctx") -> "\"file:/a.sctx\""
      [] o = Obj(<<>>) -> "{}"
      [] o = WidgetOptionsFor("file:/a.sctx", "") ->
           "{\"diagramType\":\"keith-diagram\",\"uri\":\"file:/a.sctx\",\"iconClass\":\"fa fa-square-o\",\"label\":\"\"}"
      [] OTHER ->
           "{\"diagramType\":\"keith-diagram\",\"uri\":\"file:/a.sctx\",\"iconClass\":\"fa fa-square-o\"}"

IsRedraw(uri) ==
    /\ Len(calls') = Len(calls) + 1
    /\ SubSeq(calls', 1, Len(calls)) = calls
    /\ LET call == calls'[Len(calls')]
       IN /\ call.kind = "draw" /\ call.uri = uri /\ call.st = "pending"
          /\ call.events = <<Event("baseOpen", uri, "reveal", 0)>>
    /\ UNCHANGED <<keithWidgets, containers, wmWidgets, microtasks>>

\* C2: the editor-changed handler redraws (drawDiagram of the editor's
\* resource URI) if and only if a diagram widget of this manager exists in
\* the widget manager, the editor is defined and its getResourceUri()
\* yields a URI; otherwise it does nothing at all.
C2_EditorChangeRedrawsIff ==
    [][ lastOp'.op = "editorChanged" =>
          LET e == lastOp'.editor
          IN IF /\ \E w \in wmWidgets : w.factory = ManagerId
                /\ e.defined
                /\ e.resourceUri \in URIs
             THEN IsRedraw(e.resourceUri)
             ELSE UNCHANGED <<keithWidgets, containers, wmWidgets, calls, microtasks>> ]_vars

\* The handler has redrawn: the second call is its drawDiagram.
C2_Witness ==
    /\ lastOp.op = "editorChanged"
    /\ Len(calls) = 2 /\ calls[2].kind = "draw" /\ calls[2].st = "pending"
    /\ calls[2].uri = lastOp.editor.resourceUri

Queued(c) == \E i \in 1..Len(microtasks) : microtasks[i].call = c

\* C3: for every call the base open is started first, for the call's uri
\* and with mode 'reveal' whatever the caller passed; onDiagramOpened(uri)
\* is fired only after that open has resolved; reInitialize(uri) comes only
\* after the firing, only for a drawDiagram and only on a
\* KeithDiagramWidget; a base open that is pending or has rejected is
\* followed by neither.
C3_DrawDiagramOrder ==
    \A c \in 1..Len(calls) :
        LET call == calls[c]
            ev == call.events
        IN /\ Len(ev) \in 1..3
           /\ ev[1] = Event("baseOpen", call.uri, "reveal", 0)
           /\ Len(ev) >= 2 => /\ call.st = "resolved"
                              /\ ev[2] = Event("opened", call.uri, "", 0)
           /\ Len(ev) = 3 => /\ call.kind = "draw"
                             /\ call.widget.kind = "KeithDiagramWidget"
                             /\ ev[3] = Event("reinit", call.uri, "", call.widget.id)
           /\ call.st \in {"pending", "rejected"} => Len(ev) = 1
           /\ (call.st = "resolved" /\ ~Queued(c)) =>
                  Len(ev) = IF call.kind = "draw" /\ call.widget.kind = "KeithDiagramWidget"
                            THEN 3 ELSE 2

\* A drawDiagram has run to its end: opened, fired, reinitialized.
C3_Witness ==
    \E c \in 1..Len(calls) :
        /\ calls[c].kind = "draw" /\ Len(calls[c].events) = 3
        /\ \E d \in 1..Len(calls) : calls[d].kind = "draw" /\ calls[d].st = "rejected"

(***************************************************************************)
(* Claims about KLighDExtension                                            *)
(***************************************************************************)
\* C4: the language client given in the constructor's options is stored
\* before the base constructor runs, so what activateLanguageClient returns
\* during the construction is exactly that client: never an unset value,
\* never the client of an earlier construction.
C4_LanguageClientOfThisConstruction ==
    ext.constructed =>
        /\ ext.languageClient = ext.options.lsClient
        /\ ext.languageClient \in LanguageClients
        /\ lsClient = ext.options.lsClient

\* A second construction, with another client than the first.
C4_Witness ==
    /\ ext.constructed
    /\ ext.staticBefore = "clientA"
    /\ ext.options.lsClient = "clientB"

\* The path is some prefix followed by the ending.
IsSuffix(ending, path) == \E k \in 0..Len(path) : path = SubSeq(path, 1, k) \o ending

ExpectedDiagramType(endings, commandArg) ==
    IF /\ commandArg.isUri
       /\ \E i \in 1..Len(endings) : IsSuffix(endings[i], commandArg.path)
    THEN diagramType
    ELSE "undefined"

\* C5: getDiagramType returns the diagram type if and only if the first
\* command argument is a Uri whose path ends with one of the supported file
\* endings, and undefined otherwise; a 'diagram.open' whose argument is not
\* supported then gets no identifier and leaves the webviews, the singleton
\* and webviewMap as they are: nothing is reloaded, revealed or created.
C5_UnsupportedArgumentChangesNothing ==
    [][ \A h \in 1..Len(handlers) :
          LET before == handlers[h]
              after == handlers'[h]
          IN /\ (before.pc = "identify" /\ after.pc = "resume") =>
                    /\ after.type = ExpectedDiagramType(ext.supportedFileEndings, before.arg)
                    /\ after.type = "undefined" =>
                           /\ ~after.identifier.defined
                           /\ UNCHANGED <<webviews, singleton, webviewMap, viewCount>>
             /\ (before.pc = "resume" /\ after.pc = "done" /\ before.type = "undefined") =>
                    /\ after.outcome = "none"
                    /\ UNCHANGED <<webviews, singleton, webviewMap, viewCount>> ]_vars

\* With the diagram view open, a command for a Uri that is not supported
\* has run to its end.
C5_Witness ==
    /\ singleton # 0
    /\ Len(resumed) = 2
    /\ LET h == handlers[resumed[2]]
       IN h.pc = "done" /\ h.arg.isUri /\ h.type = "undefined"

HasIdentifier(h) == handlers[h].identifier.defined

\* C7: however the 'diagram.open' handlers interleave at their await,
\* createWebView is called at most once: the first handler to resume with
\* an identifier creates the webview and records it in webviewMap under the
\* identifier's key and as the singleton; every later one reloads that
\* webview with its own identifier and reveals its panel.
C7_SingletonCreatedOnce ==
    LET withId == SelectSeq(resumed, HasIdentifier)
        n == Len(withId)
    IN /\ Len(webviews) = IF n = 0 THEN 0 ELSE 1
       /\ n = 0 => singleton = 0 /\ webviewMap = {}
       /\ n > 0 =>
            LET first == handlers[withId[1]]
                last == handlers[withId[n]]
            IN /\ first.outcome = "created"
               /\ \A i \in 2..n : handlers[withId[i]].outcome = "reloaded"
               /\ singleton = 1
               /\ webviewMap = {<< <<first.identifier.diagramType, first.identifier.uri>>, 1 >>}
               /\ webviews[1].createdFor = first.identifier
               /\ webviews[1].identifier = last.identifier
               /\ webviews[1].reloads = n - 1
               /\ webviews[1].reveals = n - 1

\* Two handlers for different files resumed in the opposite order of their
\* invocation; the second to resume reloaded the webview of the first.
C7_Witness ==
    /\ resumed = <<2, 1>>
    /\ handlers[1].outcome = "reloaded" /\ handlers[2].outcome = "created"
    /\ handlers[1].identifier.uri # handlers[2].identifier.uri

(***************************************************************************)
(* Claims about the interactive layout view                                *)
(***************************************************************************)
SomeSelected == \E i \in 1..Len(knodes) : knodes[i].selected

\* The number of layers of the level.
LayerCount == Cardinality({knodes[i].layerId : i \in 1..Len(knodes)})

\* The new empty last layer is offered unless the one node of the last
\* layer is the selected one.
NewLayerOffered ==
    LET lastL == {i \in 1..Len(knodes) : knodes[i].layerId = LayerCount - 1}
    IN ~(Cardinality(lastL) = 1 /\ \A i \in lastL : knodes[i].selected)

ShapesOf(kind) == {i \in 1..Len(view.shapes) : view.shapes[i].shape = kind}

CurrentLayerNodes == {i \in 1..Len(knodes) : knodes[i].layerId = view.currentLayer}

\* The rank of node i among the nodes of its layer, by posId, from 0.
Rank(i) == Cardinality({j \in CurrentLayerNodes : knodes[j].posId < knodes[i].posId})

\* C8: in a non-empty current layer with at most one selected node, a
\* circle stands in exactly the gaps (above the first node, between two
\* nodes, below the last) that are not next to the selected node; the
\* indices compared with curPos for them are pairwise distinct: 0..n-1
\* without the selected node's index when it is in the layer, 0..n when it
\* is not; so at most one circle is filled.
C8_CirclesInFreeGaps ==
    LET n == Cardinality(CurrentLayerNodes)
        sel == {Rank(i) : i \in {j \in CurrentLayerNodes : knodes[j].selected}}
        circles == ShapesOf("circle")
    IN (/\ view.rendered /\ SomeSelected /\ ~view.onlyLC
        /\ n > 0
        /\ Cardinality(sel) <= 1) =>
           /\ {view.shapes[i].gap : i \in circles} = {g \in 0..n : g \notin sel /\ g - 1 \notin sel}
           /\ \A i, j \in circles : view.shapes[i].gap = view.shapes[j].gap => i = j
           /\ \A i, j \in circles : view.shapes[i].cmp = view.shapes[j].cmp => i = j
           /\ {view.shapes[i].cmp : i \in circles} = IF sel = {} THEN 0..n ELSE (0..(n - 1)) \ sel
           /\ Cardinality({i \in circles : view.shapes[i].flag}) <= 1

\* Three nodes in the current layer, the middle one selected: circles above
\* the first and below the last only.
C8_Witness ==
    /\ view.rendered /\ SomeSelected /\ ~view.onlyLC
    /\ Cardinality(CurrentLayerNodes) = 3
    /\ \E i \in CurrentLayerNodes : knodes[i].selected /\ Rank(i) = 1
    /\ Cardinality(ShapesOf("circle")) = 2

\* The borders of the layers, left to right: the level starts at 0 and
\* layer l is 40 + 20 l wide.
LeftBorder(l) == IF l = 0 THEN 0 ELSE 10 * l * (l + 3)

\* C9: with no node selected the rendering yields an empty group and
\* leaves the root's hierHeight and hierWidth as they are; with a node
\* selected hierHeight becomes the root's height and hierWidth the
\* rightmost x (the last layer's right border, moved on by the last
\* layer's width when the new last layer is shown) minus layers[0].leftX
\* plus 10.
C9_HierBoundsOnlyWhenSelected ==
    [][ (view'.rendered /\ UNCHANGED <<knodes, drag>>) =>
          IF SomeSelected
          THEN /\ root'.hierHeight = root.size.height
               /\ root'.hierWidth =
                    (IF NewLayerOffered
                     THEN LeftBorder(LayerCount) + (LeftBorder(LayerCount) - LeftBorder(LayerCount - 1))
                     ELSE LeftBorder(LayerCount)) - LeftBorder(0) + 10
               /\ root'.size = root.size
          ELSE /\ view'.shapes = <<>>
               /\ root' = root ]_vars

\* A rendering with nothing selected, after one with a selection had set
\* the bounds.
C9_Witness ==
    /\ view.rendered /\ ~SomeSelected /\ view.shapes = <<>>
    /\ root.hierWidth > 0

====
